---- MODULE Spec2Model ----
(***************************************************************************)
(* Model of nutsml/network.py: the Network base class (save_best and the   *)
(* abstract methods), the pipeline adapters TrainValNut, PredictNut and    *)
(* EvalNut, and the SplitRandom splitter exercised by tests/test_common.py.*)
(***************************************************************************)
EXTENDS Integers, Sequences, FiniteSets, TLC

VARIABLES
    cls,         \* class of the network object: "Network" (no override) or a wrapper
    best_score,  \* Network.best_score: <<>> is None, <<v>> is the number v
    saved,       \* score given to the save_best call whose save_weights last succeeded
    raised,      \* exception propagated by the last call, "none" if it returned
    calls,       \* history of the calls made on the network object
    batches,     \* the input stream of batches handed to a nut
    kwargs,      \* keyword arguments given to TrainValNut
    gens,        \* state of each generator created from a nut_processor
    metrics,     \* EvalNut: the list of metric functions
    predcol,     \* EvalNut: <<>> is None, <<k>> is the index k
    targetcol,   \* EvalNut: index of the batch column that holds the targets
    ev,          \* EvalNut: position and local variables of the running call
    samples,     \* SplitRandom: the input sequence
    ratio,       \* SplitRandom: the ratio argument, in units of 1/Den
    split        \* SplitRandom: outcome of the call

netVars == <<cls, best_score, saved, raised, calls>>
genVars == <<batches, kwargs, gens>>
evalVars == <<metrics, predcol, targetcol, ev>>
splitVars == <<samples, ratio, split>>

vars == <<cls, best_score, saved, raised, calls, batches, kwargs, gens,
          metrics, predcol, targetcol, ev, samples, ratio, split>>

\* ------------------------------------------------------------------ bounds

MaxScore == 1
MaxCalls == 3
MaxBatches == 2
MaxRows == 2
MaxMetrics == 2
MaxSamples == 4
Den == 4

Scores == (0 - MaxScore)..MaxScore

\* ------------------------------------------------------------ class Network

None == <<>>

Classes == {"Network", "KerasNetwork", "LasagneNetwork"}

AbstractMethods ==
    {"train", "validate", "predict", "evaluate",
     "save_weights", "load_weights", "print_layers"}

\* Python truth value of best_score in `not self.best_score`: None and 0 are falsy.
Falsy(b) == b = None \/ b[1] = 0

\* The condition of the if statement of save_best.
SaveBestGuard(best, score, isloss) ==
    IF Falsy(best) THEN TRUE
    ELSE \/ (isloss /\ score < best[1])
         \/ (~isloss /\ score > best[1])

\* Mutant of Network_method: the base class method returns silently.
Network_method_silent(m) == "none"

\* Outcome of a method of the base class: each one raises.
Network_method(m) == "NotImplementedError"

\* Outcome of calling method m on an object of class c. The wrappers override
\* every abstract method; their save_weights/load_weights delegate to the
\* framework's file I/O, whose outcome `io` is decided outside this code.
CallOutcome(c, m, io) ==
    IF c = "Network" THEN Network_method(m)
    ELSE IF m \in {"save_weights", "load_weights"} THEN io
    ELSE "none"

IOOutcomes == {"none", "IOError"}

\* Mutant of AssignBest: the assignment is made only after a successful save.
AssignBestAfterSave(prev, score, outcome) ==
    IF outcome = "none" THEN <<score>> ELSE prev

\* best_score after line 175, which runs before save_weights is called.
AssignBest(prev, score, outcome) == <<score>>

IdleNet ==
    /\ cls = "Network"
    /\ best_score = None
    /\ saved = None
    /\ raised = "none"
    /\ calls = <<>>

IdleGen ==
    /\ batches = <<>>
    /\ kwargs = "none"
    /\ gens = <<>>

IdleEval ==
    /\ metrics = <<>>
    /\ predcol = <<>>
    /\ targetcol = 0 - 1
    /\ ev = <<>>

IdleSplit ==
    /\ samples = <<>>
    /\ ratio = <<>>
    /\ split = <<>>

InitNet ==
    /\ IdleGen
    /\ IdleEval
    /\ IdleSplit
    /\ cls \in Classes
    /\ best_score = None
    /\ saved = None
    /\ raised = "none"
    /\ calls = <<>>

\* network.save_best(score, isloss)
SaveBest(score, isloss, io) ==
    /\ Len(calls) < MaxCalls
    /\ LET guard   == SaveBestGuard(best_score, score, isloss)
           outcome == IF guard THEN CallOutcome(cls, "save_weights", io) ELSE "none"
           after   == IF guard THEN AssignBest(best_score, score, outcome)
                      ELSE best_score
       IN  /\ best_score' = after
           /\ saved' = IF guard /\ outcome = "none" THEN <<score>> ELSE saved
           /\ raised' = outcome
           /\ calls' = Append(calls, [op |-> "save_best", score |-> score,
                                      isloss |-> isloss, before |-> best_score,
                                      after |-> after,
                                      savedBefore |-> saved,
                                      invoked |-> IF guard THEN 1 ELSE 0,
                                      raised |-> outcome])
    /\ UNCHANGED <<cls, genVars, evalVars, splitVars>>

\* network.m() for one of the abstract methods m
CallMethod(m, io) ==
    /\ Len(calls) < MaxCalls
    /\ raised' = CallOutcome(cls, m, io)
    /\ calls' = Append(calls, [op |-> m, score |-> 0, isloss |-> TRUE,
                               before |-> best_score, after |-> best_score,
                               savedBefore |-> saved, invoked |-> 0,
                               raised |-> CallOutcome(cls, m, io)])
    /\ UNCHANGED <<cls, best_score, saved, genVars, evalVars, splitVars>>

NextNet ==
    \/ \E s \in Scores, l \in BOOLEAN, io \in IOOutcomes : SaveBest(s, l, io)
    \/ \E m \in AbstractMethods, io \in IOOutcomes : CallMethod(m, io)

SpecNet == InitNet /\ [][NextNet]_vars

\* ------------------------------------------------- properties of save_best

\* The save_best calls made so far, in order.
SaveCalls == SelectSeq(calls, LAMBDA c : c.op = "save_best")

FixedDirection(h) == \A i, j \in 1..Len(h) : h[i].isloss = h[j].isloss

\* c is strictly better than b in the direction isloss.
Better(score, b, isloss) == IF isloss THEN score < b ELSE score > b

\* The best score among the first n calls of h (n >= 1).
RECURSIVE BestOf(_, _)
BestOf(h, n) ==
    IF n = 1 THEN h[1].score
    ELSE LET b == BestOf(h, n - 1)
         IN  IF Better(h[n].score, b, h[n].isloss) THEN h[n].score ELSE b

\* C1: with a fixed isloss direction, after every save_best call best_score
\* is the best score passed so far (minimum for a loss, maximum otherwise),
\* for all scores including 0.
C1_BestSoFar ==
    (SaveCalls # <<>> /\ FixedDirection(SaveCalls))
        => best_score = <<BestOf(SaveCalls, Len(SaveCalls))>>

\* C2: save_best invokes save_weights exactly once when no score is recorded
\* or the score is strictly better, and otherwise neither invokes it nor
\* changes best_score.
C2_SaveOnlyOnImprovement ==
    \A i \in 1..Len(calls) :
        LET c == calls[i]
            improves == c.before = None \/ Better(c.score, c.before[1], c.isloss)
        IN  c.op = "save_best" =>
                IF improves THEN c.invoked = 1
                ELSE c.invoked = 0 /\ c.after = c.before

\* C3: on a network of the base class every abstract method raises
\* NotImplementedError and nothing else is ever raised; save_best raises it
\* whenever it invokes save_weights, in particular on the first call.
C3_AbstractRaises ==
    cls = "Network" =>
        \A i \in 1..Len(calls) :
            LET c == calls[i]
            IN  /\ c.raised \in {"none", "NotImplementedError"}
                /\ c.op \in AbstractMethods => c.raised = "NotImplementedError"
                /\ (c.op = "save_best" /\ (c.invoked = 1 \/ c.before = None))
                       => c.raised = "NotImplementedError"
                /\ (c.op = "save_best" /\ c.invoked = 0) => c.raised = "none"

C3_Witness ==
    /\ cls = "Network"
    /\ Len(calls) = 3
    /\ calls[1].op = "save_best" /\ calls[1].raised = "NotImplementedError"
    /\ calls[2].op = "save_best" /\ calls[2].invoked = 0
    /\ calls[3].op = "print_layers" /\ raised = "NotImplementedError"

\* C8 as stated: a save_best call in which save_weights raises leaves
\* best_score as it was, so best_score is always the score of the weights
\* last saved successfully.
C8_FailureAtomic ==
    /\ \A i \in 1..Len(calls) :
           (calls[i].op = "save_best" /\ calls[i].raised # "none")
               => calls[i].after = calls[i].before
    /\ best_score = saved

\* C8 amended: when save_weights raises during a save_best call, the
\* exception propagates out of save_best with best_score already set to the
\* score of that call, and the saved weights are those of before the call.
C8_AssignedBeforeSave ==
    calls # <<>> =>
        LET c == calls[Len(calls)]
        IN  (c.op = "save_best" /\ c.invoked = 1 /\ c.raised # "none")
                => /\ raised = c.raised
                   /\ best_score = <<c.score>>
                   /\ saved = c.savedBefore

C8_Witness ==
    /\ cls = "KerasNetwork"
    /\ Len(calls) = 2
    /\ calls[1].op = "save_best" /\ calls[1].raised = "none"
    /\ calls[2].op = "save_best" /\ calls[2].raised = "IOError"
    /\ best_score # saved
    /\ saved = calls[2].before


\* ------------------------------------------------------------- batches

\* Sequences over S of length 0..n.
SeqsUpTo(S, n) == UNION {[1..k -> S] : k \in 0..n}

\* Batch number b: a tuple of ncols columns of n rows each. Every cell holds
\* a distinct number that encodes its batch, column and row.
MakeBatch(b, n, ncols) ==
    [c \in 1..ncols |-> [r \in 1..n |-> 100 * b + 10 * c + r]]

\* The stream with sizes[b] rows in batch b.
MakeStream(sizes, ncols) ==
    [b \in 1..Len(sizes) |-> MakeBatch(b, sizes[b], ncols)]

\* Number of rows of the arrays in args (0 when there is no array).
NRows(args) == IF Len(args) = 0 THEN 0 ELSE Len(args[1])

\* func(*batch, **kwargs) of a training or validation function: one result
\* (a loss), determined by the arguments it receives.
TrainFn(args, kw) == [loss_of |-> args, kwargs |-> kw]

\* func(*batch) of a prediction function: one prediction per row, determined
\* by the row of the arrays it receives.
PredFn(args) == [r \in 1..NRows(args) |-> [c \in 1..Len(args) |-> args[c][r]]]

RECURSIVE Concat(_)
Concat(ss) == IF ss = <<>> THEN <<>> ELSE Head(ss) \o Concat(Tail(ss))

\* ------------------------------------------- TrainValNut and PredictNut

\* A generator that has not been resumed yet.
NewGen == [pos |-> 0, pending |-> <<>>, out |-> <<>>, fcalls |-> <<>>,
           pulls |-> 0, done |-> FALSE]

\* Mutant of TrainValNut: func is applied to the whole stream when the
\* generator is first resumed (a list is built instead of yielding lazily).
TrainValNutEager(g) ==
    IF g.pos = Len(batches) THEN [g EXCEPT !.done = TRUE]
    ELSE [g EXCEPT !.pos = @ + 1,
                   !.fcalls = [i \in 1..Len(batches) |-> i],
                   !.out = Append(@, TrainFn(batches[g.pos + 1], kwargs))]

\* One resumption of the generator of TrainValNut: the loop takes the next
\* batch, calls func and yields its result, or ends with the stream.
TrainValNut(g) ==
    IF g.pos = Len(batches) THEN [g EXCEPT !.done = TRUE]
    ELSE [g EXCEPT !.pos = @ + 1,
                   !.fcalls = Append(@, g.pos + 1),
                   !.out = Append(@, TrainFn(batches[g.pos + 1], kwargs))]

\* Mutant of PredictNut: flatten is ignored and the batch of predictions is
\* yielded whole.
PredictNutNoFlatten(g, flatten) ==
    IF g.pos = Len(batches) THEN [g EXCEPT !.done = TRUE]
    ELSE [g EXCEPT !.pos = @ + 1,
                   !.fcalls = Append(@, g.pos + 1),
                   !.out = Append(@, PredFn(batches[g.pos + 1]))]

\* One resumption of the generator of PredictNut. With flatten the inner loop
\* yields the predictions of pred_batch one by one (g.pending holds those not
\* yielded yet); an empty pred_batch yields nothing and the outer loop goes on.
RECURSIVE PredictNut(_, _)
PredictNut(g, flatten) ==
    IF g.pending # <<>>
    THEN [g EXCEPT !.out = Append(@, Head(g.pending)), !.pending = Tail(@)]
    ELSE IF g.pos = Len(batches) THEN [g EXCEPT !.done = TRUE]
    ELSE LET pred_batch == PredFn(batches[g.pos + 1])
             called == [g EXCEPT !.pos = @ + 1, !.fcalls = Append(@, g.pos + 1)]
         IN  IF flatten
             THEN PredictNut([called EXCEPT !.pending = pred_batch], flatten)
             ELSE [called EXCEPT !.out = Append(@, pred_batch)]

Nuts == {"trainval", "predict_flat", "predict_batch"}

Resume(nut, g) ==
    CASE nut = "trainval"      -> TrainValNut(g)
      [] nut = "predict_flat"  -> PredictNut(g, TRUE)
      [] nut = "predict_batch" -> PredictNut(g, FALSE)

InitGen ==
    /\ IdleNet
    /\ IdleEval
    /\ IdleSplit
    /\ \E sizes \in SeqsUpTo(0..MaxRows, MaxBatches), ncols \in {1, 2} :
           batches = MakeStream(sizes, ncols)
    /\ kwargs \in {"none", "lr"}
    /\ gens = [nut \in Nuts |-> NewGen]

\* The consumer of the generator of `nut` asks for the next element.
Pull(nut) ==
    /\ ~gens[nut].done
    /\ gens' = [gens EXCEPT ![nut] =
                    [Resume(nut, gens[nut]) EXCEPT !.pulls = @ + 1]]
    /\ UNCHANGED <<netVars, batches, kwargs, evalVars, splitVars>>

NextGen == \E nut \in Nuts : Pull(nut)

SpecGen == InitGen /\ [][NextGen]_vars

\* ---------------------------------- properties of TrainValNut, PredictNut

\* The outputs that the generator of `nut` derives from batch i.
Derived(nut, i) ==
    CASE nut = "trainval"      -> <<TrainFn(batches[i], kwargs)>>
      [] nut = "predict_flat"  -> PredFn(batches[i])
      [] nut = "predict_batch" -> <<PredFn(batches[i])>>

\* The outputs derived from the first k batches, in order.
AllDerived(nut, k) == Concat([i \in 1..k |-> Derived(nut, i)])

IsPrefix(s, t) == Len(s) <= Len(t) /\ s = SubSeq(t, 1, Len(s))

\* C9: the generators call func once per batch in input order and only on
\* demand: func has been called on batch k only if the consumer asked for more
\* than the outputs of the batches before k, every output of those batches has
\* been yielded before, and TrainValNut yields one result per batch, result i
\* being func(*batch_i, **kwargs).
C9_LazyInOrder ==
    \A nut \in Nuts :
        LET g == gens[nut]
            k == Len(g.fcalls)
        IN  /\ g.fcalls = [i \in 1..k |-> i]
            /\ k <= Len(batches)
            /\ IsPrefix(g.out, AllDerived(nut, k))
            /\ k >= 1 => /\ IsPrefix(AllDerived(nut, k - 1), g.out)
                          /\ g.pulls > Len(AllDerived(nut, k - 1))
            /\ g.pulls = 0 => g.fcalls = <<>>
            /\ Len(g.out) <= g.pulls
            /\ nut = "trainval" =>
                   /\ Len(g.out) = k
                   /\ \A i \in 1..k : g.out[i] = TrainFn(batches[i], kwargs)
            /\ g.done => k = Len(batches) /\ g.out = AllDerived(nut, k)

C9_Witness ==
    /\ Len(batches) = 2
    /\ gens["trainval"].pulls = 1 /\ gens["trainval"].fcalls = <<1>>
    /\ gens["predict_flat"].pending # <<>>
    /\ gens["predict_flat"].fcalls = <<1>>
    /\ gens["predict_batch"].done

\* C10: the output of PredictNut with flatten=True is the concatenation, in
\* order, of the batches of predictions that PredictNut with flatten=False
\* yields for the same stream, one per batch; a batch without predictions
\* gives no output when flattened and one empty output otherwise.
C10_FlattenIsConcat ==
    (gens["predict_flat"].done /\ gens["predict_batch"].done) =>
        /\ gens["predict_flat"].out = Concat(gens["predict_batch"].out)
        /\ Len(gens["predict_batch"].out) = Len(batches)
        /\ \A i \in 1..Len(batches) :
               /\ Len(gens["predict_batch"].out[i]) = NRows(batches[i])
               /\ NRows(batches[i]) = 0 => gens["predict_batch"].out[i] = <<>>

C10_Witness ==
    /\ gens["predict_flat"].done /\ gens["predict_batch"].done
    /\ Len(batches) = 2
    /\ NRows(batches[1]) = 0 /\ NRows(batches[2]) = 2
    /\ Len(gens["predict_flat"].out) = 2
    /\ Len(gens["predict_batch"].out) = 2

\* ----------------------------------------------------------------- EvalNut

Min(a, b) == IF a < b THEN a ELSE b
Max(a, b) == IF a > b THEN a ELSE b

\* Python: i is a valid index of a tuple of length n.
PyValidIndex(n, i) == 0 - n <= i /\ i <= n - 1

\* Python: t[i] for a valid index i (negative indices count from the end).
PyGet(t, i) == IF i >= 0 THEN t[i + 1] ELSE t[Len(t) + i + 1]

\* Python: t[:stop]
PySliceTo(t, stop) ==
    SubSeq(t, 1, IF stop >= 0 THEN Min(stop, Len(t)) ELSE Max(Len(t) + stop, 0))

\* The columns of batch other than the target column, in their order.
PBatchAllOthers(batch, tcol) ==
    LET k == IF tcol >= 0 THEN tcol + 1 ELSE Len(batch) + tcol + 1
    IN  SubSeq(batch, 1, k - 1) \o SubSeq(batch, k + 1, Len(batch))

\* accumulate: the columns handed on to the prediction, batch[:targetcol].
PBatch(batch, tcol) == PySliceTo(batch, tcol)

\* Mutant of Accumulate: the targets of the batch replace those seen before.
AccumulateLast(tgts, target) == target

\* accumulate: targets.extend(target)
Accumulate(tgts, target) == tgts \o target

\* The prediction function of the network: a single array of predictions when
\* the network has one output, a tuple of two arrays when it has several.
NetPredict(args, multi) ==
    IF multi
    THEN [o \in 1..2 |->
            [r \in 1..NRows(args) |->
                [c \in 1..Len(args) |-> 1000 * o + args[c][r]]]]
    ELSE PredFn(args)

\* Get(predcol) applied to one batch of predictions: the batch itself for
\* None, otherwise the output with that index.
Get(x, col) == IF col = None THEN x ELSE PyGet(x, col[1])

\* np.vstack of a list of scalars: one row per scalar.
VStackScalars(xs) == [i \in 1..Len(xs) |-> <<xs[i]>>]

\* Mutant of ReturnValue: a tuple is returned for a single metric too.
ReturnValueAlwaysTuple(results) == [tuple |-> TRUE, values |-> results]

\* results if len(results) > 1 else results[0], for a non-empty tuple.
ReturnValue(results) ==
    IF Len(results) > 1 THEN [tuple |-> TRUE, values |-> results]
    ELSE [tuple |-> FALSE, values |-> <<results[1]>>]

MetricNames == {"accuracy", "f1"}

NewEval == [pc |-> "collect", targets |-> <<>>, preds |-> <<>>, consumed |-> 0,
            pred_args |-> <<>>, computed |-> <<>>, result |-> <<>>,
            raised |-> "none"]

InitEval ==
    /\ IdleNet
    /\ IdleSplit
    /\ kwargs = "none"
    /\ gens = <<>>
    /\ \E sizes \in SeqsUpTo(0..MaxRows, MaxBatches), ncols \in {2, 3} :
           batches = MakeStream(sizes, ncols)
    /\ metrics \in SeqsUpTo(MetricNames, MaxMetrics)
    /\ predcol \in {None, <<0>>, <<1>>}
    /\ targetcol \in (0 - 3)..2
    /\ ev = NewEval

Raise(e, exc) == [e EXCEPT !.pc = "raised", !.raised = exc]

\* Collect() draws the predictions of one more batch through the pipeline:
\* accumulate splits the batch and extends targets, the prediction function is
\* applied to p_batch, Get and Flatten turn its result into rows.
EvalBatch ==
    /\ ev.pc = "collect"
    /\ ev.consumed < Len(batches)
    /\ LET batch == batches[ev.consumed + 1]
           taken == [ev EXCEPT !.consumed = @ + 1]
       IN  IF ~PyValidIndex(Len(batch), targetcol)
           THEN ev' = Raise(taken, "IndexError")
           ELSE LET p_batch == PBatch(batch, targetcol)
                    target  == PyGet(batch, targetcol)
                    acc     == [taken EXCEPT
                                   !.targets = Accumulate(@, target),
                                   !.pred_args = Append(@, p_batch)]
                IN  IF Len(p_batch) = 0
                    THEN ev' = Raise(acc, "TypeError")
                    ELSE ev' = [acc EXCEPT !.preds =
                                   @ \o Get(NetPredict(p_batch, predcol # None),
                                            predcol)]
    /\ UNCHANGED <<netVars, genVars, metrics, predcol, targetcol, splitVars>>

\* The stream is exhausted: np.vstack of targets and of preds, which raises
\* on an empty list.
EvalStack ==
    /\ ev.pc = "collect"
    /\ ev.consumed = Len(batches)
    /\ ev' = IF ev.targets = <<>> \/ ev.preds = <<>>
             THEN Raise(ev, "ValueError")
             ELSE [ev EXCEPT !.pc = "compute",
                             !.targets = VStackScalars(@)]
    /\ UNCHANGED <<netVars, genVars, metrics, predcol, targetcol, splitVars>>

\* compute(m, targets, preds) for the next metric m of the list.
EvalCompute ==
    /\ ev.pc = "compute"
    /\ Len(ev.computed) < Len(metrics)
    /\ ev' = [ev EXCEPT !.computed =
                 Append(@, [metric |-> metrics[Len(ev.computed) + 1],
                            targets |-> ev.targets, preds |-> ev.preds])]
    /\ UNCHANGED <<netVars, genVars, metrics, predcol, targetcol, splitVars>>

\* return results if len(results) > 1 else results[0]
EvalReturn ==
    /\ ev.pc = "compute"
    /\ Len(ev.computed) = Len(metrics)
    /\ ev' = IF ev.computed = <<>> THEN Raise(ev, "IndexError")
             ELSE [ev EXCEPT !.pc = "done", !.result = ReturnValue(ev.computed)]
    /\ UNCHANGED <<netVars, genVars, metrics, predcol, targetcol, splitVars>>

NextEval == EvalBatch \/ EvalStack \/ EvalCompute \/ EvalReturn

SpecEval == InitEval /\ [][NextEval]_vars

\* ---------------------------------------------------- properties of EvalNut

\* The batch and the row a cell of a batch, or a value predicted from it,
\* comes from (see MakeBatch and NetPredict).
SampleOf(v) == <<(v \div 100) % 10, v % 10>>

\* The target rows of all batches in batch order, as stacked by np.vstack.
AllTargets ==
    VStackScalars(Concat([b \in 1..Len(batches) |-> PyGet(batches[b], targetcol)]))

\* The prediction rows of all batches in batch order: for each batch, the
\* selected output of the network on the arguments it was given.
AllPreds ==
    Concat([b \in 1..Len(ev.pred_args) |->
               Get(NetPredict(ev.pred_args[b], predcol # None), predcol)])

\* C4: compute is called once per metric, in the order of the list, only
\* after every batch has been consumed and predicted, and each call receives
\* the targets of all batches and the predictions of all batches in batch
\* order, row i of the targets and row i of the predictions belonging to the
\* same sample.
C4_MetricsOverFullSet ==
    /\ ev.computed # <<>> =>
           /\ ev.consumed = Len(batches)
           /\ Len(ev.pred_args) = Len(batches)
    /\ Len(ev.computed) <= Len(metrics)
    /\ ev.pc = "done" => Len(ev.computed) = Len(metrics)
    /\ \A i \in 1..Len(ev.computed) :
           LET c == ev.computed[i]
           IN  /\ c.metric = metrics[i]
               /\ c.targets = AllTargets
               /\ c.preds = AllPreds
               /\ Len(c.targets) = Len(c.preds)
               /\ \A r \in 1..Len(c.targets) : \A k \in 1..Len(c.preds[r]) :
                      SampleOf(c.preds[r][k]) = SampleOf(c.targets[r][1])

C4_Witness ==
    /\ ev.pc = "done"
    /\ Len(batches) = 2
    /\ NRows(batches[1]) = 2 /\ NRows(batches[2]) = 1
    /\ Len(metrics) = 2
    /\ Len(ev.computed) = 2
    /\ Len(ev.computed[2].targets) = 3

\* C5: a completed evaluation of n >= 1 metrics returns a tuple with one
\* entry per metric in the order of the list, entry i being the result of
\* compute for metric i, or the bare result when there is one metric.
C5_TupleOrBare ==
    (ev.pc = "done" /\ Len(metrics) >= 1) =>
        /\ Len(ev.result.values) = Len(metrics)
        /\ \A i \in 1..Len(metrics) :
               /\ ev.result.values[i].metric = metrics[i]
               /\ ev.result.values[i] = ev.computed[i]
        /\ ev.result.tuple = (Len(metrics) > 1)

C5_Witness ==
    /\ ev.pc = "done"
    /\ Len(metrics) = 1
    /\ ~ev.result.tuple
    /\ ev.result.values[1].metric = "f1"

\* C7: for every batch and every valid targetcol, the targets are the column
\* batch[targetcol] and the prediction function receives all other columns
\* of the batch in their original order.
C7_PredictGetsOtherColumns ==
    \A b \in 1..Len(ev.pred_args) :
        PyValidIndex(Len(batches[b]), targetcol) =>
            ev.pred_args[b] = PBatchAllOthers(batches[b], targetcol)

\* ------------------------------------------------------------- SplitRandom

RECURSIVE Sum(_)
Sum(xs) == IF xs = <<>> THEN 0 ELSE Head(xs) + Sum(Tail(xs))

Abs(x) == IF x < 0 THEN 0 - x ELSE x

\* The ratios of the buckets: a single ratio r stands for (r, 1 - r).
Ratios(rt) == IF rt.float THEN <<rt.rs[1], Den - rt.rs[1]>> ELSE rt.rs

\* A tuple of ratios is accepted when it sums up to one.
RatiosValid(rt) == rt.float \/ Sum(rt.rs) = Den

\* The bucket sizes for n samples: whole numbers that sum to n, each within
\* less than one of its ratio's share of n.
BucketSizes(n, rs) ==
    {sz \in [1..Len(rs) -> 0..n] :
        /\ Sum(sz) = n
        /\ \A i \in 1..Len(rs) : Abs(sz[i] * Den - rs[i] * n) < Den}

\* The orders in which the random source can put the samples.
Shuffles(xs) ==
    {[i \in 1..Len(xs) |-> xs[p[i]]] :
        p \in {q \in [1..Len(xs) -> 1..Len(xs)] :
                  \A i, j \in 1..Len(xs) : q[i] = q[j] => i = j}}

\* Mutant of Cut: every bucket after the first starts one element early.
CutOverlapping(shuffled, sz) ==
    [i \in 1..Len(sz) |->
        LET start == Sum(SubSeq(sz, 1, i - 1))
        IN  SubSeq(shuffled, Max(start, 1), start + sz[i])]

\* The shuffled samples cut into consecutive buckets of the given sizes.
Cut(shuffled, sz) ==
    [i \in 1..Len(sz) |->
        LET start == Sum(SubSeq(sz, 1, i - 1))
        IN  SubSeq(shuffled, start + 1, start + sz[i])]

RatioArgs ==
    {[float |-> TRUE, rs |-> <<r>>] : r \in 1..(Den - 1)}
        \cup {[float |-> FALSE, rs |-> rs] :
                 rs \in [1..2 -> 1..(Den - 1)] \cup [1..3 -> 1..(Den - 1)]}

InitSplit ==
    /\ IdleNet
    /\ IdleGen
    /\ IdleEval
    /\ \E n \in 0..MaxSamples : samples = [i \in 1..n |-> i - 1]
    /\ ratio \in RatioArgs
    /\ split = [pc |-> "ready", splits |-> <<>>, raised |-> "none"]

\* samples >> SplitRandom(ratio=ratio), with any random source
SplitRandom ==
    /\ split.pc = "ready"
    /\ IF ~RatiosValid(ratio)
       THEN split' = [split EXCEPT !.pc = "raised", !.raised = "ValueError"]
       ELSE \E shuffled \in Shuffles(samples),
               sz \in BucketSizes(Len(samples), Ratios(ratio)) :
                split' = [split EXCEPT !.pc = "done",
                                       !.splits = Cut(shuffled, sz)]
    /\ UNCHANGED <<netVars, genVars, evalVars, samples, ratio>>

NextSplit == SplitRandom

SpecSplit == InitSplit /\ [][NextSplit]_vars

\* ------------------------------------------------ properties of SplitRandom

\* Number of times e occurs in the buckets.
Occurrences(e, buckets) ==
    Cardinality({<<i, j>> \in (1..Len(buckets)) \X (1..Len(samples)) :
                    j <= Len(buckets[i]) /\ buckets[i][j] = e})

IsPartition(buckets) ==
    /\ \A i \in 1..Len(samples) : Occurrences(samples[i], buckets) = 1
    /\ \A i \in 1..Len(buckets) : \A j \in 1..Len(buckets[i]) :
           \E k \in 1..Len(samples) : buckets[i][j] = samples[k]
    /\ \A a, b \in 1..Len(buckets) : a # b =>
           \A j \in 1..Len(buckets[a]) : \A k \in 1..Len(buckets[b]) :
               buckets[a][j] # buckets[b][k]

\* Every bucket's share r_i * n is a whole number.
WholeShares == \A i \in 1..Len(Ratios(ratio)) :
                   (Ratios(ratio)[i] * Len(samples)) % Den = 0

Rejected == split.pc = "raised" /\ split.raised = "ValueError" /\ split.splits = <<>>

\* C6 as stated: for ratios that sum to one the k buckets partition the
\* input and bucket i has exactly r_i * n elements, for every n; other ratios
\* are rejected with a ValueError.
C6_ExactRatioSizes ==
    split.pc # "ready" =>
        IF RatiosValid(ratio)
        THEN /\ split.pc = "done"
             /\ Len(split.splits) = Len(Ratios(ratio))
             /\ IsPartition(split.splits)
             /\ \A i \in 1..Len(split.splits) :
                    Len(split.splits[i]) * Den = Ratios(ratio)[i] * Len(samples)
        ELSE Rejected

\* C6 amended: for ratios that sum to one the k buckets partition the input,
\* and bucket i has exactly r_i * n elements whenever every r_i * n is a whole
\* number; other ratios are rejected with a ValueError.
C6_PartitionAndWholeSizes ==
    split.pc # "ready" =>
        IF RatiosValid(ratio)
        THEN /\ split.pc = "done"
             /\ Len(split.splits) = Len(Ratios(ratio))
             /\ IsPartition(split.splits)
             /\ Sum([i \in 1..Len(split.splits) |-> Len(split.splits[i])])
                    = Len(samples)
             /\ WholeShares =>
                    \A i \in 1..Len(split.splits) :
                        Len(split.splits[i]) * Den
                            = Ratios(ratio)[i] * Len(samples)
        ELSE Rejected

C6_Witness ==
    /\ split.pc = "done"
    /\ Len(samples) = 4
    /\ ratio = [float |-> FALSE, rs |-> <<2, 1, 1>>]
    /\ Len(split.splits[1]) = 2
    /\ Len(split.splits[2]) = 1
    /\ Len(split.splits[3]) = 1
    /\ split.splits[1][1] = 3

====
